---- MODULE Spec2Model ----
(***************************************************************************)
(* Model of q_aifo_stfq.c, the tc(8) option codec of the AIFO-STFQ qdisc:  *)
(*   aifo_parse_opt    command-line tokens -> nested netlink attributes    *)
(*   aifo_print_opt    nested netlink attributes -> printed fields         *)
(*   aifo_print_xstats struct tc_aifo_xstats -> printed statistics         *)
(*                                                                         *)
(* Representation.  TLC integers are 32-bit signed, so every C integer is  *)
(* kept as the little-endian sequence of its bytes (x86-64 build: LP64,    *)
(* unsigned long = 8 bytes, unsigned int = uint32_t = 4 bytes, uint16_t =  *)
(* 2 bytes).  A C string is the sequence of its characters.                *)
(*                                                                         *)
(* The iproute2 helpers the file calls (NEXT_ARG, get_u32, get_u16,        *)
(* get_unsigned, the addattr family, parse_rtattr_nested, rta_getattr_u32, *)
(* rta_getattr_u16, print_uint, print_float)                               *)
(* are modelled by what lib/utils.c, lib/libnetlink.c and lib/json_print.c *)
(* do, at the place the file calls them.                                   *)
(***************************************************************************)
EXTENDS Integers, Sequences, FiniteSets, TLC

(***************************************************************************)
(* Bytes and fixed-width unsigned arithmetic                               *)
(***************************************************************************)
RECURSIVE ToLE(_, _)
\* the k low bytes of the small non-negative integer n, little-endian
ToLE(n, k) == IF k = 0 THEN <<>> ELSE <<n % 256>> \o ToLE(n \div 256, k - 1)

RECURSIVE IsZero(_)
IsZero(x) == IF x = <<>> THEN TRUE ELSE x[1] = 0 /\ IsZero(Tail(x))

\* the low k bytes of x, zero-extended when x is narrower (an integer conversion)
Trunc(x, k) == [i \in 1..k |-> IF i <= Len(x) THEN x[i] ELSE 0]

\* the bytes of x above the low k
High(x, k) == IF Len(x) <= k THEN <<>> ELSE SubSeq(x, k + 1, Len(x))

RECURSIVE ToInt(_)
\* value of a byte sequence that fits a TLC integer (at most 3 bytes are used)
ToInt(x) == IF x = <<>> THEN 0 ELSE x[1] + 256 * ToInt(Tail(x))

RECURSIVE MulAddExt(_, _, _)
\* x * m + c, one byte longer than x: the last byte is the carry out
MulAddExt(x, m, c) ==
    IF x = <<>> THEN <<c>>
    ELSE LET t == x[1] * m + c
         IN  <<t % 256>> \o MulAddExt(Tail(x), m, t \div 256)

RECURSIVE DivSmall(_, _)
\* quotient and remainder of x by the small divisor d
DivSmall(x, d) ==
    IF x = <<>> THEN [q |-> <<>>, r |-> 0]
    ELSE LET hi == DivSmall(Tail(x), d)
             t  == hi.r * 256 + x[1]
         IN  [q |-> <<t \div d>> \o hi.q, r |-> t % d]

RECURSIVE SubBorrow(_, _)
\* x - b for a borrow b in {0, 1}, wrapping at the width of x
SubBorrow(x, b) ==
    IF x = <<>> THEN <<>>
    ELSE IF x[1] >= b THEN <<x[1] - b>> \o Tail(x)
         ELSE <<255>> \o SubBorrow(Tail(x), 1)

\* x >> 1 at the width of x
Shr1(x) == DivSmall(x, 2).q

RECURSIVE Neg(_, _)
\* two's complement negation at the width of x (c = 1 on entry)
Neg(x, c) ==
    IF x = <<>> THEN <<>>
    ELSE LET t == (255 - x[1]) + c
         IN  <<t % 256>> \o Neg(Tail(x), t \div 256)

RECURSIVE Pow2(_)
Pow2(k) == IF k = 0 THEN 1 ELSE 2 * Pow2(k - 1)

\* the 4-byte value with only bit k set, 0 <= k < 32
Bit32(k) == [i \in 1..4 |-> IF (k \div 8) + 1 = i THEN Pow2(k % 8) ELSE 0]

(***************************************************************************)
(* Characters                                                              *)
(***************************************************************************)
DecDigits == <<"0", "1", "2", "3", "4", "5", "6", "7", "8", "9">>
HexDigitsUpper == DecDigits \o <<"A", "B", "C", "D", "E", "F">>
HexDigitsLower == DecDigits \o <<"a", "b", "c", "d", "e", "f">>
UpperLetters == <<"A", "B", "C", "D", "E", "F", "G", "H", "I", "J", "K", "L", "M",
                  "N", "O", "P", "Q", "R", "S", "T", "U", "V", "W", "X", "Y", "Z">>
LowerLetters == <<"a", "b", "c", "d", "e", "f", "g", "h", "i", "j", "k", "l", "m",
                  "n", "o", "p", "q", "r", "s", "t", "u", "v", "w", "x", "y", "z">>

\* tolower(3) in the C locale
tolower(c) ==
    IF \E i \in 1..26 : UpperLetters[i] = c
    THEN LowerLetters[CHOOSE i \in 1..26 : UpperLetters[i] = c]
    ELSE c

\* value of c as a digit, 99 when c is no digit in any base up to 16
DigitVal(c) ==
    IF \E i \in 1..16 : HexDigitsUpper[i] = c
    THEN (CHOOSE i \in 1..16 : HexDigitsUpper[i] = c) - 1
    ELSE IF \E i \in 1..16 : HexDigitsLower[i] = c
         THEN (CHOOSE i \in 1..16 : HexDigitsLower[i] = c) - 1
         ELSE 99

\* strcmp(a, b) == 0
strcmp0(a, b) == a = b

\* strcasecmp(a, b) == 0
strcasecmp0(a, b) ==
    [i \in DOMAIN a |-> tolower(a[i])] = [i \in DOMAIN b |-> tolower(b[i])]

(***************************************************************************)
(* Integer parsing: strtoul(arg, &ptr, 0) and the get_* wrappers           *)
(***************************************************************************)
\* ULONG_MAX of the LP64 build: eight 0xFF bytes
ULONG_MAX == <<255, 255, 255, 255, 255, 255, 255, 255>>
ULONG_BYTES == Len(ULONG_MAX)

RECURSIVE strtoul_digits(_, _, _, _, _)
\* the digit loop: [val, endp, ovf] from position i with accumulator acc
strtoul_digits(s, i, base, acc, ovf) ==
    IF i > Len(s) \/ DigitVal(s[i]) >= base
    THEN [val |-> acc, endp |-> i, ovf |-> ovf]
    ELSE LET ext == MulAddExt(acc, base, DigitVal(s[i]))
         IN  strtoul_digits(s, i + 1, base, SubSeq(ext, 1, ULONG_BYTES),
                            ovf \/ ext[ULONG_BYTES + 1] # 0)

\* strtoul with base 0: optional sign, 0x/0X prefix = hexadecimal, leading 0 =
\* octal, otherwise decimal.  endp is the index of the first character not
\* consumed (1 = nothing was converted); erange is errno == ERANGE.
strtoul(s) ==
    LET neg   == Len(s) >= 1 /\ s[1] = "-"
        i0    == IF Len(s) >= 1 /\ s[1] \in {"+", "-"} THEN 2 ELSE 1
        isHex == /\ Len(s) >= i0 + 2
                 /\ s[i0] = "0"
                 /\ s[i0 + 1] \in {"x", "X"}
                 /\ DigitVal(s[i0 + 2]) < 16
        base  == IF isHex THEN 16
                 ELSE IF Len(s) >= i0 /\ s[i0] = "0" THEN 8 ELSE 10
        start == IF isHex THEN i0 + 2 ELSE i0
        r     == strtoul_digits(s, start, base, ToLE(0, ULONG_BYTES), FALSE)
    IN  IF r.endp = start
        THEN [val |-> ToLE(0, ULONG_BYTES), endp |-> 1, erange |-> FALSE]
        ELSE IF r.ovf
             THEN [val |-> ULONG_MAX, endp |-> r.endp, erange |-> TRUE]
             ELSE [val |-> IF neg THEN Neg(r.val, 1) ELSE r.val,
                   endp |-> r.endp, erange |-> FALSE]

\* get_u32 / get_u16 / get_unsigned of lib/utils.c for a result of w bytes:
\* rc = -1 on an empty string, no digits, trailing characters, overflow of
\* unsigned long, or a value that does not fit w bytes; else rc = 0 and val.
get_uint(arg, w) ==
    IF arg = <<>> THEN [rc |-> -1, val |-> <<>>]
    ELSE LET r == strtoul(arg)
         IN  IF r.endp = 1 \/ r.endp <= Len(arg)
             THEN [rc |-> -1, val |-> <<>>]
             ELSE IF r.val = ULONG_MAX /\ r.erange
                  THEN [rc |-> -1, val |-> <<>>]
                  ELSE IF ~IsZero(High(r.val, w))
                       THEN [rc |-> -1, val |-> <<>>]
                       ELSE [rc |-> 0, val |-> Trunc(r.val, w)]

get_u32(arg) == get_uint(arg, 4)
get_u16(arg) == get_uint(arg, 2)
get_unsigned(arg) == get_uint(arg, 4)

(***************************************************************************)
(* Formatting: the %u and %X conversions of printf                         *)
(***************************************************************************)
RECURSIVE FmtDigits(_, _, _)
\* the digits of x in the given base, most significant first, "" for 0
FmtDigits(x, base, digits) ==
    IF IsZero(x) THEN <<>>
    ELSE LET dm == DivSmall(x, base)
         IN  FmtDigits(dm.q, base, digits) \o <<digits[dm.r + 1]>>

\* printf("%u", x)
FmtU(x) == IF IsZero(x) THEN <<"0">> ELSE FmtDigits(x, 10, DecDigits)

\* printf("%X", x)
FmtX(x) == IF IsZero(x) THEN <<"0">> ELSE FmtDigits(x, 16, HexDigitsUpper)

(***************************************************************************)
(* Command-line tokens                                                     *)
(***************************************************************************)
T_limit == <<"l", "i", "m", "i", "t">>
T_burst == <<"b", "u", "r", "s", "t">>
T_buckets == <<"b", "u", "c", "k", "e", "t", "s">>
T_hash_mask == <<"h", "a", "s", "h", "_", "m", "a", "s", "k">>
T_flow_limit == <<"f", "l", "o", "w", "_", "l", "i", "m", "i", "t">>
T_samples == <<"s", "a", "m", "p", "l", "e", "s">>
T_speriod == <<"s", "p", "e", "r", "i", "o", "d">>
T_flags == <<"f", "l", "a", "g", "s">>
T_FLAGS == <<"F", "L", "A", "G", "S">>
T_help == <<"h", "e", "l", "p">>
T_bogus == <<"-", "-", "b", "o", "g", "u", "s">>
T_Limit == <<"L", "i", "m", "i", "t">>

V_0 == <<"0">>
V_1 == <<"1">>
V_2 == <<"2">>
V_3 == <<"3">>
V_1000 == <<"1", "0", "0", "0">>
V_1024 == <<"1", "0", "2", "4">>
V_1025 == <<"1", "0", "2", "5">>
V_65535 == <<"6", "5", "5", "3", "5">>
V_65536 == <<"6", "5", "5", "3", "6">>
V_2147483648 == <<"2", "1", "4", "7", "4", "8", "3", "6", "4", "8">>
V_2147483649 == <<"2", "1", "4", "7", "4", "8", "3", "6", "4", "9">>
V_4294967295 == <<"4", "2", "9", "4", "9", "6", "7", "2", "9", "5">>
V_4294967296 == <<"4", "2", "9", "4", "9", "6", "7", "2", "9", "6">>
V_0x20 == <<"0", "x", "2", "0">>
V_0xFFFFFFFF == <<"0", "x", "F", "F", "F", "F", "F", "F", "F", "F">>
V_010 == <<"0", "1", "0">>

(***************************************************************************)
(* Program constants                                                       *)
(***************************************************************************)
AIFO_SAMPLE_SIZE_MAX == 1024

TCA_AIFO_PLIMIT == 1
TCA_AIFO_BURST == 2
TCA_AIFO_BUCKETS_LOG == 3
TCA_AIFO_HASH_MASK == 4
TCA_AIFO_FLOW_PLIMIT == 5
TCA_AIFO_SAMPLE_SIZE == 6
TCA_AIFO_SAMPLE_PERIOD == 7
TCA_AIFO_FLAGS == 8
TCA_AIFO_MAX == TCA_AIFO_FLAGS

\* TCA_OPTIONS of linux/rtnetlink.h and MAX_MSG of libnetlink.h, as the calls
\* at lines 160 and 167 pass them
TCA_OPTIONS == 2
MAX_MSG == 16384
\* the bound the file passes literally to most addattr calls
MAXLEN_1024 == 1024

U32_MAX == <<255, 255, 255, 255>>
U16_MAX == <<255, 255>>
U32_ZERO == <<0, 0, 0, 0>>

(***************************************************************************)
(* The netlink message under construction: nlmsg_len and the attributes    *)
(* appended so far, each at its byte offset.                               *)
(***************************************************************************)
\* NLMSG_ALIGN / RTA_ALIGN: round up to a multiple of 4
ALIGN4(x) == ((x + 3) \div 4) * 4

\* RTA_LENGTH(alen): the 4-byte rtattr header plus the payload
RTA_LENGTH(alen) == 4 + alen

\* addattr_l(n, maxlen, type, data, alen): refuses (rc = -1, message on
\* stderr, n untouched) when the aligned message would exceed maxlen, else
\* appends the attribute at NLMSG_TAIL(n) and advances nlmsg_len.
addattr_l(n, maxlen, type, data) ==
    LET len == RTA_LENGTH(Len(data))
    IN  IF ALIGN4(n.len) + ALIGN4(len) > maxlen
        THEN [rc |-> -1, n |-> n]
        ELSE [rc |-> 0,
              n  |-> [len   |-> ALIGN4(n.len) + ALIGN4(len),
                      attrs |-> Append(n.attrs,
                                       [off  |-> ALIGN4(n.len), type |-> type,
                                        len  |-> len, data |-> data])]]

\* addattr32 / addattr16: addattr_l of the value's 4 / 2 bytes
addattr32(n, maxlen, type, data) == addattr_l(n, maxlen, type, Trunc(data, 4))
addattr16(n, maxlen, type, data) == addattr_l(n, maxlen, type, Trunc(data, 2))

\* NLMSG_TAIL(n) as an offset into the message
NLMSG_TAIL(n) == ALIGN4(n.len)

\* addattr_nest_end(n, nest): nest->rta_len = NLMSG_TAIL(n) - nest, written
\* into whatever attribute header lies at offset nest
addattr_nest_end(n, nest) ==
    [n EXCEPT !.attrs = [i \in DOMAIN n.attrs |->
        IF n.attrs[i].off = nest
        THEN [n.attrs[i] EXCEPT !.len = NLMSG_TAIL(n) - nest]
        ELSE n.attrs[i]]]

(***************************************************************************)
(* ilog2 (lines 68-78)                                                     *)
(***************************************************************************)
RECURSIVE ilog2_loop(_, _)
\* while (val) { res++; val >>= 1; }
ilog2_loop(val, res) ==
    IF IsZero(val) THEN res ELSE ilog2_loop(Shr1(val), res + 1)

\* val--; then the loop: the number of significant bits of val - 1
ilog2(val) == ilog2_loop(SubBorrow(val, 1), 0)

(***************************************************************************)
(* aifo_parse_opt: the option loop (lines 94-158)                          *)
(***************************************************************************)
\* the locals as initialised at lines 83-91
InitLocals ==
    [plimit        |-> U32_MAX,
     burst         |-> U32_MAX,
     buckets       |-> U32_ZERO,
     hash_mask     |-> U32_ZERO,
     flow_plimit   |-> U32_MAX,
     sample_size   |-> U16_MAX,
     sample_period |-> U16_MAX,
     flags         |-> U32_ZERO,
     flags_upd     |-> FALSE]

\* the else-if chain of option names, in source order: the token compared
\* against, whether with strcasecmp, the getter, the local it sets
OptionChain ==
    << [name |-> T_limit,      icase |-> FALSE, get |-> "u32",      var |-> "plimit"],
       [name |-> T_buckets,    icase |-> FALSE, get |-> "unsigned", var |-> "buckets"],
       [name |-> T_burst,      icase |-> FALSE, get |-> "u32",      var |-> "burst"],
       [name |-> T_hash_mask,  icase |-> FALSE, get |-> "u32",      var |-> "hash_mask"],
       [name |-> T_flow_limit, icase |-> FALSE, get |-> "u32",      var |-> "flow_plimit"],
       [name |-> T_samples,    icase |-> FALSE, get |-> "u16",      var |-> "sample_size"],
       [name |-> T_speriod,    icase |-> FALSE, get |-> "u16",      var |-> "sample_period"],
       [name |-> T_flags,      icase |-> TRUE,  get |-> "unsigned", var |-> "flags"] >>

\* the comparison one link of the chain makes
OptionMatches(tok, e) ==
    IF e.icase THEN strcasecmp0(tok, e.name) ELSE strcmp0(tok, e.name)

\* the link of the chain a token takes: 1..8 an option, "help" next, else last
OptionBranch(tok) ==
    IF \E i \in DOMAIN OptionChain : OptionMatches(tok, OptionChain[i])
    THEN CHOOSE i \in DOMAIN OptionChain :
            /\ OptionMatches(tok, OptionChain[i])
            /\ \A j \in 1..(i - 1) : ~OptionMatches(tok, OptionChain[j])
    ELSE IF strcmp0(tok, T_help) THEN Len(OptionChain) + 1
         ELSE Len(OptionChain) + 2

\* the getter a link calls on the value token
GetValue(get, arg) ==
    IF get = "u32" THEN get_u32(arg)
    ELSE IF get = "u16" THEN get_u16(arg)
    ELSE get_unsigned(arg)

\* one line written to stderr, with the token it names
Msg(m, tok) == [msg |-> m, tok |-> tok]

\* explain(): the usage line
explain(f) == [f EXCEPT !.err = Append(@, Msg("Usage: ... aifo-stfq", <<>>))]

\* return -1
ReturnFail(f) == [f EXCEPT !.status = "returned", !.ret = -1]

\* incomplete_command() of lib/utils.c: message, then exit(-1); the process
\* ends and aifo_parse_opt never returns to its caller
incomplete_command(f) ==
    [f EXCEPT !.err = Append(@, Msg("Command line is not complete", <<>>)),
              !.status = "exited"]

\* mutant of NEXT_ARG: a missing value is reported with return -1
NEXT_ARG_returns(f) ==
    LET g == [f EXCEPT !.argp = @ + 1, !.argc = @ - 1]
    IN  IF g.argc <= 0
        THEN ReturnFail([g EXCEPT !.err = Append(@, Msg("Command line is not complete", <<>>))])
        ELSE g

\* NEXT_ARG() of utils.h: argv++; if (--argc <= 0) incomplete_command();
NEXT_ARG(f) ==
    LET g == [f EXCEPT !.argp = @ + 1, !.argc = @ - 1]
    IN  IF g.argc <= 0 THEN incomplete_command(g) ELSE g

\* mutant of SampleSizeTooBig: the ceiling itself is refused
SampleSizeTooBig_ge(v) == ToInt(v) >= AIFO_SAMPLE_SIZE_MAX

\* the ceiling test of line 131
SampleSizeTooBig(v) == ToInt(v) > AIFO_SAMPLE_SIZE_MAX

\* the body of an option branch after NEXT_ARG succeeded: parse the value,
\* store it, then argc--, argv++ (lines 156-157)
OptionValue(argv, g, e) ==
    LET r  == GetValue(e.get, argv[g.argp])
        g1 == [g EXCEPT !.examined = @ \cup {g.argp}]
    IN  IF r.rc # 0
        THEN ReturnFail([g1 EXCEPT !.err = Append(@, Msg("Illegal", e.name))])
        ELSE IF e.var = "sample_size" /\ SampleSizeTooBig(r.val)
        THEN ReturnFail([g1 EXCEPT !.l.sample_size = r.val,
                                   !.err = Append(@, Msg("Value too big", e.name))])
        ELSE [g1 EXCEPT !.l = IF e.var = "flags"
                              THEN [@ EXCEPT !.flags = r.val, !.flags_upd = TRUE]
                              ELSE [@ EXCEPT ![e.var] = r.val],
                        !.argp = @ + 1, !.argc = @ - 1]

\* one iteration of while (argc > 0) on the frame f =
\* [argp, argc, l, err, status, ret, examined]
LoopIteration(argv, f) ==
    LET tok == argv[f.argp]
        b   == OptionBranch(tok)
        f1  == [f EXCEPT !.examined = @ \cup {f.argp}]
    IN  IF b = Len(OptionChain) + 1
        THEN ReturnFail(explain(f1))
        ELSE IF b = Len(OptionChain) + 2
        THEN ReturnFail(explain([f1 EXCEPT
                 !.err = Append(@, Msg("unknown parameter", tok))]))
        ELSE LET g == NEXT_ARG(f1)
             IN  IF g.status # "running" THEN g
                 ELSE OptionValue(argv, g, OptionChain[b])

(***************************************************************************)
(* aifo_parse_opt: serialisation (lines 160-186)                           *)
(***************************************************************************)
EmitPlimit(l) == l.plimit # U32_MAX
EmitBurst(l) == l.burst # U32_MAX
EmitBuckets(l) == l.buckets # U32_ZERO
\* mutant of EmitHashMask: the all-ones sentinel of the other 32-bit fields
EmitHashMask_allones(l) == l.hash_mask # U32_MAX
EmitHashMask(l) == l.hash_mask # U32_ZERO
EmitFlowPlimit(l) == l.flow_plimit # U32_MAX
EmitSampleSize(l) == l.sample_size # U16_MAX
EmitSamplePeriod(l) == l.sample_period # U16_MAX
\* mutant of EmitFlags: the value as its own sentinel
EmitFlags_nonzero(l) == l.flags # U32_ZERO
EmitFlags(l) == l.flags_upd

\* the addattr calls of lines 164-181 in order: whether the call is made, the
\* bound and tag it passes, the width (addattr32 / addattr16) and the value
EmitCalls(l) ==
    << [on |-> EmitPlimit(l), maxlen |-> MAXLEN_1024, type |-> TCA_AIFO_PLIMIT,
        w |-> 4, data |-> l.plimit],
       [on |-> EmitBurst(l), maxlen |-> MAX_MSG, type |-> TCA_AIFO_BURST,
        w |-> 4, data |-> l.burst],
       [on |-> EmitBuckets(l), maxlen |-> MAXLEN_1024, type |-> TCA_AIFO_BUCKETS_LOG,
        w |-> 4, data |-> ToLE(ilog2(l.buckets), 4)],
       [on |-> EmitHashMask(l), maxlen |-> MAXLEN_1024, type |-> TCA_AIFO_HASH_MASK,
        w |-> 4, data |-> l.hash_mask],
       [on |-> EmitFlowPlimit(l), maxlen |-> MAXLEN_1024, type |-> TCA_AIFO_FLOW_PLIMIT,
        w |-> 4, data |-> l.flow_plimit],
       [on |-> EmitSampleSize(l), maxlen |-> MAX_MSG, type |-> TCA_AIFO_SAMPLE_SIZE,
        w |-> 2, data |-> l.sample_size],
       [on |-> EmitSamplePeriod(l), maxlen |-> MAX_MSG, type |-> TCA_AIFO_SAMPLE_PERIOD,
        w |-> 2, data |-> l.sample_period],
       [on |-> EmitFlags(l), maxlen |-> MAX_MSG, type |-> TCA_AIFO_FLAGS,
        w |-> 4, data |-> l.flags] >>

RECURSIVE EmitSeq(_, _)
\* the calls in order on s = [n, err]; a call's return value is not looked at,
\* a refused call leaves only addattr_l's message on stderr
EmitSeq(s, calls) ==
    IF calls = <<>> THEN s
    ELSE LET c == Head(calls)
             r == IF c.w = 4 THEN addattr32(s.n, c.maxlen, c.type, c.data)
                  ELSE addattr16(s.n, c.maxlen, c.type, c.data)
             t == IF ~c.on THEN s
                  ELSE [n   |-> r.n,
                        err |-> IF r.rc = 0 THEN s.err
                                ELSE Append(s.err, Msg("addattr_l ERROR: message exceeded bound", <<>>))]
         IN  EmitSeq(t, Tail(calls))

\* lines 160-186: open the nest, append the supplied fields, close the nest,
\* return 0
Serialise(f, n) ==
    LET tail == NLMSG_TAIL(n)
        r0   == addattr_l(n, MAXLEN_1024, TCA_OPTIONS, <<>>)
        s0   == [n   |-> r0.n,
                 err |-> IF r0.rc = 0 THEN f.err
                         ELSE Append(f.err, Msg("addattr_l ERROR: message exceeded bound", <<>>))]
        s1   == EmitSeq(s0, EmitCalls(f.l))
    IN  [f    |-> [f EXCEPT !.err = s1.err, !.status = "returned", !.ret = 0],
         n    |-> addattr_nest_end(s1.n, tail),
         tail |-> tail]

(***************************************************************************)
(* aifo_print_opt (lines 189-253)                                          *)
(***************************************************************************)
\* An attribute as the decoder meets it: rta_type, rta_len and the payload
\* bytes that follow the header.  A block is the outer attribute: its rta_len
\* and the stream of attributes that follows its header.
Rta(type, data) == [type |-> type, len |-> RTA_LENGTH(Len(data)), data |-> data]

\* RTA_PAYLOAD(rta)
RTA_PAYLOAD(rta) == rta.len - RTA_LENGTH(0)

\* RTA_OK(rta, len)
RTA_OK(rta, len) == len >= RTA_LENGTH(0) /\ rta.len >= RTA_LENGTH(0) /\ rta.len <= len

RECURSIVE parse_rtattr(_, _, _)
\* parse_rtattr of lib/libnetlink.c: walk the stream while RTA_OK, keep the
\* first attribute of each type <= max, ignore the others
parse_rtattr(tb, recs, len) ==
    IF recs = <<>> \/ ~RTA_OK(Head(recs), len) THEN tb
    ELSE LET r == Head(recs)
             tb1 == IF r.type <= TCA_AIFO_MAX /\ tb[r.type] = <<>>
                    THEN [tb EXCEPT ![r.type] = <<r>>]
                    ELSE tb
         IN  parse_rtattr(tb1, Tail(recs), len - ALIGN4(r.len))

\* parse_rtattr_nested(tb, TCA_AIFO_MAX, opt): tb[] zeroed, then the walk over
\* RTA_DATA(opt) for RTA_PAYLOAD(opt) bytes; <<>> stands for a NULL entry
parse_rtattr_nested(o) ==
    parse_rtattr([t \in 0..TCA_AIFO_MAX |-> <<>>], o.recs, RTA_PAYLOAD(o))

\* bytes found behind a payload that is shorter than the read
OverreadBytes == {0, 171}

\* what a read of w bytes at RTA_DATA(rta) can return: the payload's bytes,
\* and behind a shorter payload whatever lies there
ReadBytes(rta, w) ==
    IF Len(rta.data) >= w THEN {SubSeq(rta.data, 1, w)}
    ELSE {rta.data \o g : g \in [1..(w - Len(rta.data)) -> OverreadBytes]}

rta_getattr_u32(rta) == ReadBytes(rta, 4)
rta_getattr_u16(rta) == ReadBytes(rta, 2)

\* 1U << k: defined for k < 32; for k >= 32 the shift is undefined and the
\* builds produce 0 or the shift by k mod 32
Shl1(k) ==
    IF IsZero(High(k, 1)) /\ k[1] < 32 THEN {Bit32(k[1])}
    ELSE {U32_ZERO, Bit32(k[1] % 32)}

\* the length test each field's if makes (sizeof(__u32) or sizeof(__u16))
CheckedWidth ==
    [t \in 1..TCA_AIFO_MAX |->
        IF t \in {TCA_AIFO_BURST, TCA_AIFO_SAMPLE_SIZE, TCA_AIFO_SAMPLE_PERIOD}
        THEN 2 ELSE 4]

\* the width of the rta_getattr_* call each field's body makes
ReadWidth ==
    [t \in 1..TCA_AIFO_MAX |->
        IF t \in {TCA_AIFO_SAMPLE_SIZE, TCA_AIFO_SAMPLE_PERIOD} THEN 2 ELSE 4]

\* tb[t] && RTA_PAYLOAD(tb[t]) >= sizeof(...)
FieldShown(tb, t) == tb[t] # <<>> /\ RTA_PAYLOAD(tb[t][1]) >= CheckedWidth[t]

\* print_uint(PRINT_ANY, key, fmt, value): value is an unsigned int
print_uint(key, fmt, value) ==
    [key |-> key, fmt |-> fmt,
     text |-> IF fmt \in {"flags 0x%X "} THEN FmtX(Trunc(value, 4))
              ELSE FmtU(Trunc(value, 4))]

\* key and format of each field, in the order the function prints them
PrintOrder ==
    << [t |-> TCA_AIFO_PLIMIT,        key |-> "limit",      fmt |-> "limit %up "],
       [t |-> TCA_AIFO_BURST,         key |-> "burst",      fmt |-> "burst %u "],
       [t |-> TCA_AIFO_BUCKETS_LOG,   key |-> "buckets",    fmt |-> "buckets %u "],
       [t |-> TCA_AIFO_HASH_MASK,     key |-> "hash_mask",  fmt |-> "hash_mask %u "],
       [t |-> TCA_AIFO_FLOW_PLIMIT,   key |-> "flow_limit", fmt |-> "flow_limit %up "],
       [t |-> TCA_AIFO_SAMPLE_SIZE,   key |-> "samples",    fmt |-> "samples %u "],
       [t |-> TCA_AIFO_SAMPLE_PERIOD, key |-> "speriod",    fmt |-> "speriod %u "],
       [t |-> TCA_AIFO_FLAGS,         key |-> "flags",      fmt |-> "flags 0x%X "] >>

\* for each field shown, the values its read (and the shift) can deliver
FieldValues(tb) ==
    [t \in {u \in 1..TCA_AIFO_MAX : FieldShown(tb, u)} |->
        IF t = TCA_AIFO_BUCKETS_LOG
        THEN UNION {Shl1(k) : k \in rta_getattr_u32(tb[t][1])}
        ELSE ReadBytes(tb[t][1], ReadWidth[t])]

RECURSIVE PrintFields(_, _, _)
\* the if-blocks of lines 199-251 in order, printing vals[t] for a field shown
PrintFields(tb, vals, order) ==
    IF order = <<>> THEN <<>>
    ELSE LET e == Head(order)
         IN  (IF FieldShown(tb, e.t)
              THEN <<print_uint(e.key, e.fmt, vals[e.t])>> ELSE <<>>)
             \o PrintFields(tb, vals, Tail(order))

\* mutant of PrintOptReturn: a block too short for its header is an error
PrintOptReturn_strict(o) == IF o.len < RTA_LENGTH(0) THEN -1 ELSE 0

\* the value aifo_print_opt returns once the table is parsed (line 252)
PrintOptReturn(o) == 0

(***************************************************************************)
(* aifo_print_xstats (lines 255-282)                                       *)
(***************************************************************************)
\* struct tc_aifo_xstats: the members and their sizes, in declaration order
XstatsMembers ==
    << [name |-> "flows",        size |-> 4],
       [name |-> "flows_gc",     size |-> 8],
       [name |-> "alloc_errors", size |-> 4],
       [name |-> "no_mark",      size |-> 4],
       [name |-> "drop_mark",    size |-> 4],
       [name |-> "qlen_peak",    size |-> 4],
       [name |-> "backlog_peak", size |-> 4],
       [name |-> "quant_avg_1k", size |-> 4] >>

AlignUp(x, a) == ((x + a - 1) \div a) * a

RECURSIVE LayoutEnd(_, _)
\* offset behind the last member, each member aligned to its size
LayoutEnd(off, members) ==
    IF members = <<>> THEN off
    ELSE LayoutEnd(AlignUp(off, Head(members).size) + Head(members).size,
                   Tail(members))

\* sizeof(struct tc_aifo_xstats): the layout rounded up to the widest member
sizeof_xstats == AlignUp(LayoutEnd(0, XstatsMembers), 8)

\* the digits of a small integer, zero-padded on the left to w characters
PadDigits(k, w) ==
    LET d == FmtU(ToLE(k, 4))
    IN  [i \in 1..(w - Len(d)) |-> "0"] \o d

\* print_float(PRINT_ANY, key, " quant_avg %.3f", (float) v / 1024.0) for
\* v < 2^24, where the conversion to float is exact: the quotient rounded to
\* three decimals, ties to even
print_float_1k(key, fmt, v) ==
    LET q    == ToInt(Trunc(v, 3))
        ip   == q \div 1024
        num  == (q % 1024) * 1000
        t0   == num \div 1024
        rem  == num % 1024
        t    == IF rem > 512 \/ (rem = 512 /\ t0 % 2 = 1) THEN t0 + 1 ELSE t0
    IN  [key |-> key, fmt |-> fmt,
         text |-> IF t = 1000 THEN FmtU(ToLE(ip + 1, 4)) \o <<".">> \o PadDigits(0, 3)
                  ELSE FmtU(ToLE(ip, 4)) \o <<".">> \o PadDigits(t, 3)]

\* the test of line 263
XstatsTooShort(x) == x.payload < sizeof_xstats

\* mutant of PeaksShown: both peaks must be non-zero
PeaksShown_both(st) == ~IsZero(st.backlog_peak) /\ ~IsZero(st.qlen_peak)

\* the test of line 275
PeaksShown(st) == ~IsZero(st.backlog_peak) \/ ~IsZero(st.qlen_peak)

\* lines 267-279
XstatsOut(st) ==
    << print_uint("flows", "  flows %u", st.flows),
       print_uint("flows_gc", " gc %u", st.flows_gc),
       print_uint("alloc_errors", " alloc_errors %u", st.alloc_errors),
       print_uint("no_mark", " \n  no_mark %u", st.no_mark),
       print_uint("drop_mark", " drop_mark %u", st.drop_mark),
       print_float_1k("quant_avg", " quant_avg %.3f", st.quant_avg_1k) >>
    \o (IF PeaksShown(st)
        THEN << print_uint("backlog_peak", "  backlog_peak %ub", st.backlog_peak),
                print_uint("qlen_peak", " %up", st.qlen_peak) >>
        ELSE <<>>)

(***************************************************************************)
(* Inputs                                                                  *)
(***************************************************************************)
MaxArgc == 4
MaxAttrs == 2

SeqsUpTo(S, k) == UNION {[1..m -> S] : m \in 0..k}

\* tokens combined freely into command lines of up to MaxArgc tokens
CoreTokens ==
    {T_limit, T_buckets, T_samples, T_flags, T_FLAGS, T_help, T_bogus,
     V_0, V_3, V_1025}

OptionNames ==
    {T_limit, T_burst, T_buckets, T_hash_mask, T_flow_limit, T_samples,
     T_speriod, T_flags, T_FLAGS, T_Limit}

ValueTokens ==
    {V_0, V_1, V_2, V_3, V_1000, V_1024, V_1025, V_65535, V_65536,
     V_2147483648, V_2147483649, V_4294967295, V_4294967296, V_0x20,
     V_0xFFFFFFFF, V_010}

\* the command lines given to aifo_parse_opt
ArgvInputs ==
    SeqsUpTo(CoreTokens, MaxArgc)
    \cup {<<nm, v>> : nm \in OptionNames, v \in ValueTokens}

\* nlmsg_len on entry when tc calls parse_qopt: the netlink header, the
\* tcmsg and the TCA_KIND attribute; the block fits below both bounds
MsgLens == {52}

\* nlmsg_len on entry for a caller whose message is nearly at a bound
TightMsgLens == {1012, 1016, 1020, 1024, 16376, 16384}

\* the attributes met in blocks handed to aifo_print_opt: every tag and an
\* unknown one, with payloads of 2, 4 and 8 bytes
AttrInputs ==
    {Rta(t, d) : t \in 1..(TCA_AIFO_MAX + 1),
                 d \in {<<5, 0>>, <<5, 0, 0, 0>>, <<5, 0, 0, 0, 9, 9, 9, 9>>}}
    \cup {Rta(TCA_AIFO_BUCKETS_LOG, <<33, 0, 0, 0>>)}

RECURSIVE StreamLen(_)
StreamLen(recs) ==
    IF recs = <<>> THEN 0 ELSE ALIGN4(Head(recs).len) + StreamLen(Tail(recs))

\* a NULL opt, and blocks whose rta_len covers the whole stream, stops short
\* of its last attribute, or is shorter than the header itself
NoOpt == [present |-> FALSE, len |-> 0, recs |-> <<>>]
OptInputs ==
    {NoOpt} \cup
    {[present |-> TRUE, len |-> k, recs |-> recs] :
        recs \in SeqsUpTo(AttrInputs, MaxAttrs), k \in {0, 2}} \cup
    {[present |-> TRUE, len |-> RTA_LENGTH(StreamLen(recs)) - cut, recs |-> recs] :
        recs \in SeqsUpTo(AttrInputs, MaxAttrs), cut \in {0, 2}}

NoXstats == [present |-> FALSE, payload |-> 0, st |-> <<>>]
XstatsInputs ==
    {NoXstats} \cup
    {[present |-> TRUE, payload |-> p,
      st |-> [flows |-> ToLE(7, 4), flows_gc |-> gc, alloc_errors |-> ToLE(0, 4),
              no_mark |-> ToLE(1, 4), drop_mark |-> ToLE(2, 4),
              qlen_peak |-> ToLE(ql, 4), backlog_peak |-> ToLE(bl, 4),
              quant_avg_1k |-> ToLE(qa, 4)]] :
        p \in {0, 36, 39, 40, 48},
        gc \in {ToLE(0, 8), <<5, 0, 0, 0, 1, 0, 0, 0>>},
        ql \in {0, 3}, bl \in {0, 1500}, qa \in {0, 64, 512, 1024, 1536, 2047}}

(***************************************************************************)
(* State                                                                   *)
(***************************************************************************)
VARIABLES
    pc,     \* the entry point running: "parse_opt", "print_opt", "print_xstats",
            \* then "opt_printed" / "xstats_printed" once a print function returned
    argv,   \* the tokens given to aifo_parse_opt
    f,      \* its frame: argp/argc (argv, argc), the locals l, stderr so far,
            \* status running/returned/exited, ret, tail, the argv slots read
    n,      \* the netlink message: nlmsg_len and the attributes appended
    n_in,   \* the message as the caller handed it over
    opt,    \* the block given to aifo_print_opt
    xstats, \* the buffer given to aifo_print_xstats
    out,    \* what the print functions have printed
    pret    \* the print function's return value

vars == <<pc, argv, f, n, n_in, opt, xstats, out, pret>>

InitFrame(av) ==
    [argp |-> 1, argc |-> Len(av), l |-> InitLocals, err |-> <<>>,
     status |-> "running", ret |-> 0, tail |-> 0, examined |-> {}]

InitParse(argvs, lens) ==
    /\ pc = "parse_opt"
    /\ argv \in argvs
    /\ f = InitFrame(argv)
    /\ n \in {[len |-> h, attrs |-> <<>>] : h \in lens}
    /\ n_in = n
    /\ opt = NoOpt /\ xstats = NoXstats /\ out = <<>> /\ pret = 0

InitPrintOpt ==
    /\ pc = "print_opt"
    /\ opt \in OptInputs
    /\ argv = <<>> /\ f = InitFrame(<<>>)
    /\ n = [len |-> 0, attrs |-> <<>>] /\ n_in = n
    /\ xstats = NoXstats /\ out = <<>> /\ pret = 0

InitPrintXstats ==
    /\ pc = "print_xstats"
    /\ xstats \in XstatsInputs
    /\ argv = <<>> /\ f = InitFrame(<<>>)
    /\ n = [len |-> 0, attrs |-> <<>>] /\ n_in = n
    /\ opt = NoOpt /\ out = <<>> /\ pret = 0

\* one of the three entry points of aifo_stfq_qdisc_util is called
Init == InitParse(ArgvInputs, MsgLens) \/ InitPrintOpt \/ InitPrintXstats

(***************************************************************************)
(* Actions                                                                 *)
(***************************************************************************)
\* mutant of ParseLoop: a parsed limit is appended to the message at once
ParseLoop_eager ==
    /\ pc = "parse_opt" /\ f.status = "running" /\ f.argc > 0
    /\ f' = LoopIteration(argv, f)
    /\ n' = IF f'.l.plimit # f.l.plimit
            THEN addattr32(n, MAXLEN_1024, TCA_AIFO_PLIMIT, f'.l.plimit).n
            ELSE n
    /\ UNCHANGED <<pc, argv, n_in, opt, xstats, out, pret>>

\* aifo_parse_opt, one iteration of the while loop
ParseLoop ==
    /\ pc = "parse_opt" /\ f.status = "running" /\ f.argc > 0
    /\ f' = LoopIteration(argv, f)
    /\ UNCHANGED <<pc, argv, n, n_in, opt, xstats, out, pret>>

\* aifo_parse_opt, from the end of the loop to return 0
ParseEmit ==
    /\ pc = "parse_opt" /\ f.status = "running" /\ ~(f.argc > 0)
    /\ LET s == Serialise(f, n)
       IN  /\ f' = [s.f EXCEPT !.tail = s.tail]
           /\ n' = s.n
    /\ UNCHANGED <<pc, argv, n_in, opt, xstats, out, pret>>

\* the TCA_OPTIONS attribute of a finished message, as a block to decode
BlockOf(m, tail) ==
    LET i == CHOOSE j \in DOMAIN m.attrs : m.attrs[j].off = tail
    IN  [present |-> TRUE, len |-> m.attrs[i].len,
         recs |-> [k \in 1..(Len(m.attrs) - i) |->
                     [type |-> m.attrs[i + k].type, len |-> m.attrs[i + k].len,
                      data |-> m.attrs[i + k].data]]]

\* aifo_print_opt on the block o
PrintOptOf(o) ==
    IF ~o.present
    THEN /\ out' = <<>> /\ pret' = 0
    ELSE LET tb == parse_rtattr_nested(o)
             fv == FieldValues(tb)
         IN  \E vals \in {v \in [DOMAIN fv -> UNION {fv[t] : t \in DOMAIN fv}] :
                             \A t \in DOMAIN fv : v[t] \in fv[t]} :
                 /\ out' = PrintFields(tb, vals, PrintOrder)
                 /\ pret' = PrintOptReturn(o)

\* aifo_print_opt, called with a block from outside
PrintOpt ==
    /\ pc = "print_opt"
    /\ PrintOptOf(opt)
    /\ pc' = "opt_printed"
    /\ UNCHANGED <<argv, f, n, n_in, opt, xstats>>

\* aifo_print_opt, called with the block aifo_parse_opt has just built
PrintBack ==
    /\ pc = "parse_opt" /\ f.status = "returned" /\ f.ret = 0
    /\ opt' = BlockOf(n, f.tail)
    /\ PrintOptOf(opt')
    /\ pc' = "opt_printed"
    /\ UNCHANGED <<argv, f, n, n_in, xstats>>

\* aifo_print_xstats
PrintXstats ==
    /\ pc = "print_xstats"
    /\ IF ~xstats.present THEN out' = <<>> /\ pret' = 0
       ELSE IF XstatsTooShort(xstats) THEN out' = <<>> /\ pret' = -1
       ELSE out' = XstatsOut(xstats.st) /\ pret' = 0
    /\ pc' = "xstats_printed"
    /\ UNCHANGED <<argv, f, n, n_in, opt, xstats>>

Next == ParseLoop \/ ParseEmit \/ PrintOpt \/ PrintBack \/ PrintXstats

Spec == Init /\ [][Next]_vars

\* aifo_parse_opt alone, on messages that are nearly full
TightArgv ==
    {<<>>} \cup {<<nm, v>> : nm \in OptionNames, v \in ValueTokens}
    \cup {<<nm, v, T_burst, w>> : nm \in {T_limit, T_flags, T_samples},
                                    v \in {V_0, V_3}, w \in {V_1, V_2}}
InitTight == InitParse(TightArgv, TightMsgLens)
NextTight == ParseLoop \/ ParseEmit
SpecTight == InitTight /\ [][NextTight]_vars

(***************************************************************************)
(* What the tokens of the inputs denote, written out by hand: the value as *)
(* 4 bytes, the value itself when below 2^16 (else -1), its decimal and    *)
(* upper-case hexadecimal text, the smallest k with 2^k >= value, and the  *)
(* decimal text of 2^k.  V_4294967296 denotes no 32-bit value.             *)
(***************************************************************************)
TokenTable ==
    << [tok |-> V_0, val |-> <<0, 0, 0, 0>>, small |-> 0,
        dec |-> <<"0">>, hex |-> <<"0">>,
        log2 |-> 0, pow2 |-> <<"1">>],
       [tok |-> V_1, val |-> <<1, 0, 0, 0>>, small |-> 1,
        dec |-> <<"1">>, hex |-> <<"1">>,
        log2 |-> 0, pow2 |-> <<"1">>],
       [tok |-> V_2, val |-> <<2, 0, 0, 0>>, small |-> 2,
        dec |-> <<"2">>, hex |-> <<"2">>,
        log2 |-> 1, pow2 |-> <<"2">>],
       [tok |-> V_3, val |-> <<3, 0, 0, 0>>, small |-> 3,
        dec |-> <<"3">>, hex |-> <<"3">>,
        log2 |-> 2, pow2 |-> <<"4">>],
       [tok |-> V_1000, val |-> <<232, 3, 0, 0>>, small |-> 1000,
        dec |-> <<"1", "0", "0", "0">>, hex |-> <<"3", "E", "8">>,
        log2 |-> 10, pow2 |-> <<"1", "0", "2", "4">>],
       [tok |-> V_1024, val |-> <<0, 4, 0, 0>>, small |-> 1024,
        dec |-> <<"1", "0", "2", "4">>, hex |-> <<"4", "0", "0">>,
        log2 |-> 10, pow2 |-> <<"1", "0", "2", "4">>],
       [tok |-> V_1025, val |-> <<1, 4, 0, 0>>, small |-> 1025,
        dec |-> <<"1", "0", "2", "5">>, hex |-> <<"4", "0", "1">>,
        log2 |-> 11, pow2 |-> <<"2", "0", "4", "8">>],
       [tok |-> V_65535, val |-> <<255, 255, 0, 0>>, small |-> 65535,
        dec |-> <<"6", "5", "5", "3", "5">>, hex |-> <<"F", "F", "F", "F">>,
        log2 |-> 16, pow2 |-> <<"6", "5", "5", "3", "6">>],
       [tok |-> V_65536, val |-> <<0, 0, 1, 0>>, small |-> -1,
        dec |-> <<"6", "5", "5", "3", "6">>, hex |-> <<"1", "0", "0", "0", "0">>,
        log2 |-> 16, pow2 |-> <<"6", "5", "5", "3", "6">>],
       [tok |-> V_2147483648, val |-> <<0, 0, 0, 128>>, small |-> -1,
        dec |-> <<"2", "1", "4", "7", "4", "8", "3", "6", "4", "8">>, hex |-> <<"8", "0", "0", "0", "0", "0", "0", "0">>,
        log2 |-> 31, pow2 |-> <<"2", "1", "4", "7", "4", "8", "3", "6", "4", "8">>],
       [tok |-> V_2147483649, val |-> <<1, 0, 0, 128>>, small |-> -1,
        dec |-> <<"2", "1", "4", "7", "4", "8", "3", "6", "4", "9">>, hex |-> <<"8", "0", "0", "0", "0", "0", "0", "1">>,
        log2 |-> 32, pow2 |-> <<"4", "2", "9", "4", "9", "6", "7", "2", "9", "6">>],
       [tok |-> V_4294967295, val |-> <<255, 255, 255, 255>>, small |-> -1,
        dec |-> <<"4", "2", "9", "4", "9", "6", "7", "2", "9", "5">>, hex |-> <<"F", "F", "F", "F", "F", "F", "F", "F">>,
        log2 |-> 32, pow2 |-> <<"4", "2", "9", "4", "9", "6", "7", "2", "9", "6">>],
       [tok |-> V_0x20, val |-> <<32, 0, 0, 0>>, small |-> 32,
        dec |-> <<"3", "2">>, hex |-> <<"2", "0">>,
        log2 |-> 5, pow2 |-> <<"3", "2">>],
       [tok |-> V_0xFFFFFFFF, val |-> <<255, 255, 255, 255>>, small |-> -1,
        dec |-> <<"4", "2", "9", "4", "9", "6", "7", "2", "9", "5">>, hex |-> <<"F", "F", "F", "F", "F", "F", "F", "F">>,
        log2 |-> 32, pow2 |-> <<"4", "2", "9", "4", "9", "6", "7", "2", "9", "6">>],
       [tok |-> V_010, val |-> <<8, 0, 0, 0>>, small |-> 8,
        dec |-> <<"8">>, hex |-> <<"8">>,
        log2 |-> 3, pow2 |-> <<"8">>] >>

IsNumber(tok) == \E i \in DOMAIN TokenTable : TokenTable[i].tok = tok
Denoted(tok) == TokenTable[CHOOSE i \in DOMAIN TokenTable : TokenTable[i].tok = tok]

\* the command line is a sequence of (name, value) pairs that was accepted,
\* serialised, and whose block was then decoded
RoundTripDone == pc = "opt_printed" /\ f.status = "returned" /\ f.ret = 0

\* the texts printed under a key
Printed(key) == {out[i].text : i \in {j \in DOMAIN out : out[j].key = key}}

\* the payloads of the attributes of a type in the message
Emitted(type) == {n.attrs[i].data : i \in {j \in DOMAIN n.attrs : n.attrs[j].type = type}}

\* the name positions of a command line made of pairs
NamePositions == {i \in DOMAIN argv : i % 2 = 1}

\* the option, given by its spellings, occurs as a name followed by a value
Occurs(names) == \E i \in NamePositions : argv[i] \in names /\ i < Len(argv)

\* the value token of the last occurrence of the option
LastValue(names) ==
    LET i == CHOOSE j \in NamePositions :
                /\ argv[j] \in names /\ j < Len(argv)
                /\ \A k \in NamePositions : (argv[k] \in names /\ k < Len(argv)) => k <= j
    IN  argv[i + 1]

\* the options of the round trip: spellings, printed key, the value that the
\* encoder reads as "not supplied" (<<>> when there is none), hex printing
RoundTripOptions ==
    << [names |-> {T_limit},      key |-> "limit",      unset |-> U32_MAX,  hex |-> FALSE],
       [names |-> {T_burst},      key |-> "burst",      unset |-> U32_MAX,  hex |-> FALSE],
       [names |-> {T_hash_mask},  key |-> "hash_mask",  unset |-> U32_ZERO, hex |-> FALSE],
       [names |-> {T_flow_limit}, key |-> "flow_limit", unset |-> U32_MAX,  hex |-> FALSE],
       [names |-> {T_samples},    key |-> "samples",    unset |-> <<>>,     hex |-> FALSE],
       [names |-> {T_speriod},    key |-> "speriod",    unset |-> <<255, 255, 0, 0>>, hex |-> FALSE],
       [names |-> {T_flags, T_FLAGS}, key |-> "flags",  unset |-> <<>>,     hex |-> TRUE] >>

ExpectedText(o, tok) == IF o.hex THEN Denoted(tok).hex ELSE Denoted(tok).dec

\* C1 as stated: after an accepted encode and a decode, every option of the
\* seven that was given prints its field with exactly the value given
\* (decimal, flags in hexadecimal), whatever accepted value that was.
C1_RoundTripAll ==
    RoundTripDone =>
        \A i \in DOMAIN RoundTripOptions :
            LET o == RoundTripOptions[i]
            IN  Occurs(o.names) =>
                    Printed(o.key) = {ExpectedText(o, LastValue(o.names))}

\* C1 amended: the field is printed with exactly the value given unless that
\* value is the one the encoder reads as "not supplied" (0xFFFFFFFF for limit,
\* burst, flow_limit; 0 for hash_mask; 0xFFFF for speriod); for that value no
\* record is emitted and the field is not printed.
C1_RoundTripExceptUnset ==
    RoundTripDone =>
        \A i \in DOMAIN RoundTripOptions :
            LET o == RoundTripOptions[i]
            IN  Occurs(o.names) =>
                    IF Denoted(LastValue(o.names)).val = o.unset
                    THEN Printed(o.key) = {}
                    ELSE Printed(o.key) = {ExpectedText(o, LastValue(o.names))}

\* C1 witness: hash_mask 0x20 went through encode and decode and printed 32
C1_Witness ==
    /\ RoundTripDone
    /\ argv = <<T_hash_mask, V_0x20>>
    /\ Printed("hash_mask") = {<<"3", "2">>}

\* C2: after an accepted encode and a decode of a command line with
\* `buckets v`: for v = 0 no BUCKETS_LOG record is emitted and no buckets field
\* printed; for v > 0 the record holds the smallest k with 2^k >= v and the
\* field printed is 2^k, the smallest power of two >= v (for k = 32, which 32
\* bits cannot hold, the value 2^32 itself or its low 32 bits are accepted).
C2_BucketsLog ==
    (RoundTripDone /\ Occurs({T_buckets})) =>
        LET d == Denoted(LastValue({T_buckets}))
        IN  IF d.val = U32_ZERO
            THEN Emitted(TCA_AIFO_BUCKETS_LOG) = {} /\ Printed("buckets") = {}
            ELSE /\ Emitted(TCA_AIFO_BUCKETS_LOG) = {ToLE(d.log2, 4)}
                 /\ IF d.log2 < 32
                    THEN Printed("buckets") = {d.pow2}
                    ELSE Printed("buckets") \subseteq {d.pow2, <<"0">>}

\* the tags and the payload width C3 expects the decoder to require of each
ExpectedWidth ==
    [t \in 1..TCA_AIFO_MAX |->
        IF t \in {TCA_AIFO_SAMPLE_SIZE, TCA_AIFO_SAMPLE_PERIOD} THEN 2 ELSE 4]

\* the first attribute of tag t that the walk over block o reaches, as a set
FirstOfTag(o, t) ==
    LET tb == parse_rtattr_nested(o) IN {tb[t][i] : i \in DOMAIN tb[t]}

KeyOfTag(t) == PrintOrder[CHOOSE i \in DOMAIN PrintOrder : PrintOrder[i].t = t].key

\* C3: aifo_print_opt prints a tag's field if and only if the tag is present
\* in the block with a payload of at least the tag's width: 4 bytes for PLIMIT,
\* BURST, BUCKETS_LOG, HASH_MASK, FLOW_PLIMIT, FLAGS and 2 bytes for
\* SAMPLE_SIZE, SAMPLE_PERIOD; a shorter payload is skipped.
C3_WidthCheck ==
    (pc = "opt_printed" /\ opt.present) =>
        \A t \in 1..TCA_AIFO_MAX :
            (Printed(KeyOfTag(t)) # {})
                <=> (\E r \in FirstOfTag(opt, t) : Len(r.data) >= ExpectedWidth[t])

\* an addattr call of the encode was refused for lack of room
AppendRefused ==
    \E i \in DOMAIN f.err : f.err[i].msg = "addattr_l ERROR: message exceeded bound"

\* C4: when the message has no room for the nest or for an inner record,
\* aifo_parse_opt returns an error, not success.
C4_OverflowPropagated ==
    (pc = "parse_opt" /\ f.status = "returned" /\ AppendRefused) => f.ret = -1

\* aifo_parse_opt has ended without success: it returned -1 or the process exited
ParseFailed ==
    /\ pc = "parse_opt"
    /\ \/ f.status = "returned" /\ f.ret # 0
       \/ f.status = "exited"

\* C5: whenever aifo_parse_opt fails while parsing the tokens, the message is
\* exactly as the caller handed it over: nothing was appended.
C5_NoPartialEncode == ParseFailed => n = n_in

\* C5 witness: `limit 3 --bogus` failed on the unknown token after the valid
\* pair was parsed into plimit, and the message is untouched
C5_Witness ==
    /\ ParseFailed
    /\ argv = <<T_limit, V_3, T_bogus>>
    /\ f.l.plimit = <<3, 0, 0, 0>>
    /\ n = n_in /\ n.attrs = <<>>

KeysOf(o) == [i \in DOMAIN o |-> o[i].key]

\* C7: aifo_print_xstats on a buffer: with a payload below the 40 bytes of
\* struct tc_aifo_xstats it fails and prints nothing; otherwise it succeeds and
\* prints flows, flows_gc, alloc_errors, no_mark, drop_mark, quant_avg, then
\* backlog_peak and qlen_peak together iff one of the two is not zero.
C7_XstatsAllOrNothing ==
    (pc = "xstats_printed" /\ xstats.present) =>
        IF xstats.payload < 40
        THEN pret = -1 /\ out = <<>>
        ELSE /\ pret = 0
             /\ KeysOf(out) =
                  <<"flows", "flows_gc", "alloc_errors", "no_mark", "drop_mark", "quant_avg">>
                  \o (IF xstats.st.qlen_peak # U32_ZERO \/ xstats.st.backlog_peak # U32_ZERO
                      THEN <<"backlog_peak", "qlen_peak">> ELSE <<>>)

\* C7 witness: a 40-byte buffer with qlen_peak = 3 and backlog_peak = 0 was
\* rendered with both peaks, backlog_peak as 0
C7_Witness ==
    /\ pc = "xstats_printed" /\ xstats.present /\ xstats.payload = 40
    /\ xstats.st.qlen_peak = <<3, 0, 0, 0>> /\ xstats.st.backlog_peak = U32_ZERO
    /\ pret = 0
    /\ Printed("backlog_peak") = {<<"0">>} /\ Printed("qlen_peak") = {<<"3">>}

\* aifo_parse_opt has returned 0 (and its block may have been decoded since)
ParseSucceeded ==
    pc \in {"parse_opt", "opt_printed"} /\ f.status = "returned" /\ f.ret = 0

FlagsSpellings == {T_flags, T_FLAGS}

\* C8: after a successful encode the block holds a FLAGS record iff a flags
\* token (in any case) was given, with the value given, 0 included; decoded,
\* `flags 0` prints flags 0 and a command line without flags prints no flags.
C8_FlagsPresence ==
    ParseSucceeded =>
        IF Occurs(FlagsSpellings)
        THEN /\ Emitted(TCA_AIFO_FLAGS) = {Denoted(LastValue(FlagsSpellings)).val}
             /\ pc = "opt_printed" =>
                    Printed("flags") = {Denoted(LastValue(FlagsSpellings)).hex}
        ELSE /\ Emitted(TCA_AIFO_FLAGS) = {}
             /\ pc = "opt_printed" => Printed("flags") = {}

\* C8 witness: `FLAGS 0` was encoded into a FLAGS record of 0 and decoded to
\* a printed flags field 0
C8_Witness ==
    /\ RoundTripDone /\ argv = <<T_FLAGS, V_0>>
    /\ Emitted(TCA_AIFO_FLAGS) = {U32_ZERO}
    /\ Printed("flags") = {<<"0">>}

\* aifo_parse_opt has ended, one way or the other
ParseEnded == pc \in {"parse_opt", "opt_printed"} /\ f.status # "running"

IsU16(tok) == IsNumber(tok) /\ Denoted(tok).small >= 0

\* C9: when the parser reaches a pair `samples v` with v a 16-bit value: for
\* v > 1024 the call fails with the too-big message and appends nothing; for
\* v <= 1024 the pair is accepted (the next token is examined, or the call
\* succeeds); a successful call emits SAMPLE_SIZE with the last value given,
\* never above 1024.
C9_SamplesCeiling ==
    ParseEnded =>
        /\ \A i \in NamePositions :
             (argv[i] = T_samples /\ (i + 1) \in f.examined /\ IsU16(argv[i + 1])) =>
                IF Denoted(argv[i + 1]).small > 1024
                THEN /\ f.status = "returned" /\ f.ret = -1
                     /\ f.err = <<Msg("Value too big", T_samples)>>
                     /\ n = n_in
                ELSE \/ (i + 2) \in f.examined
                     \/ i + 1 = Len(argv) /\ f.status = "returned" /\ f.ret = 0
        /\ (f.status = "returned" /\ f.ret = 0) =>
             /\ \A d \in Emitted(TCA_AIFO_SAMPLE_SIZE) : ToInt(d) <= 1024
             /\ Occurs({T_samples}) =>
                  Emitted(TCA_AIFO_SAMPLE_SIZE) =
                      {Trunc(Denoted(LastValue({T_samples})).val, 2)}

\* C9 witness: `samples 1024` succeeded and emitted SAMPLE_SIZE = 1024
C9_Witness ==
    /\ ParseSucceeded /\ argv = <<T_samples, V_1024>>
    /\ Emitted(TCA_AIFO_SAMPLE_SIZE) = {<<0, 4>>}

RecognizedNames ==
    {T_limit, T_burst, T_buckets, T_hash_mask, T_flow_limit, T_samples,
     T_speriod, T_flags, T_FLAGS}

\* the value token is one the option takes
ValueAccepted(name, tok) ==
    IF name = T_samples THEN IsU16(tok) /\ Denoted(tok).small <= 1024
    ELSE IF name = T_speriod THEN IsU16(tok)
    ELSE IsNumber(tok)

\* name position i is where a left-to-right reading by pairs goes wrong
Offending(i) ==
    \/ argv[i] \notin RecognizedNames
    \/ i = Len(argv)
    \/ ~ValueAccepted(argv[i], argv[i + 1])

HasOffence == \E i \in NamePositions : Offending(i)
FirstOffence ==
    CHOOSE i \in NamePositions :
        Offending(i) /\ \A j \in NamePositions : Offending(j) => i <= j

Usage == Msg("Usage: ... aifo-stfq", <<>>)

\* what C10 says of an ended call, with the fate of a missing argument left
\* open: at every moment the tokens read are a prefix of the command line;
\* without an offending position the call returns 0 having read everything;
\* otherwise the first offending position decides: help -> usage and -1, an
\* unknown name -> the message naming it, usage and -1, a name without value
\* -> `missing`, a refused value -> -1 with the message naming the option;
\* and no token behind the offending one was read.
C10_Outcome(missing) ==
    /\ \E k \in 0..Len(argv) : f.examined = 1..k
    /\ ParseEnded =>
         IF ~HasOffence
         THEN f.status = "returned" /\ f.ret = 0 /\ f.examined = DOMAIN argv
         ELSE LET i == FirstOffence
              IN  IF argv[i] = T_help
                  THEN /\ f.status = "returned" /\ f.ret = -1
                       /\ f.err = <<Usage>> /\ f.examined = 1..i
                  ELSE IF argv[i] \notin RecognizedNames
                  THEN /\ f.status = "returned" /\ f.ret = -1
                       /\ f.err = <<Msg("unknown parameter", argv[i]), Usage>>
                       /\ f.examined = 1..i
                  ELSE IF i = Len(argv)
                  THEN /\ missing
                       /\ f.err = <<Msg("Command line is not complete", <<>>)>>
                       /\ f.examined = 1..i
                  ELSE /\ f.status = "returned" /\ f.ret = -1
                       /\ Len(f.err) = 1 /\ f.err[1].msg \in {"Illegal", "Value too big"}
                       /\ strcasecmp0(f.err[1].tok, argv[i])
                       /\ f.examined = 1..(i + 1)

====
